---- MODULE Spec2Model ----
(***************************************************************************)
(* Model of supernode/daemon/mgr/progress/state_sync_map.go: stateSyncMap, *)
(* a string-keyed wrapper around *sync.Map holding values of four state    *)
(* types, used concurrently by many goroutines.                            *)
(*                                                                         *)
(* sync.Map's Load, Store and Delete are each one atomic step.  add, get   *)
(* and the typed getters touch the map once, so each is one step; remove   *)
(* does a Load and then a Delete, so it is two steps and other goroutines  *)
(* may run in between.                                                     *)
(***************************************************************************)
EXTENDS Integers, Sequences, FiniteSets, TLC

\* ------------------------------------------------------------------ bounds
NumThreads == 2      \* goroutines calling into the map
MaxData    == 1      \* distinct payloads per dynamic type
MaxNew     == 2      \* calls of server.New

Threads == 1..NumThreads

\* ------------------------------------------------------------- value space
\* The four pointer types the typed getters assert on.
StateKinds == {"superState", "clientState", "peerState", "pieceState"}
\* add takes interface{}: a value of any other dynamic type can be stored too.
Kinds == StateKinds \cup {"other"}

Values == [kind : Kinds, data : 1..MaxData]

\* nil as a returned value
NilVal == [kind |-> "nil", data |-> 0]
\* no entry under the key
Absent == [kind |-> "absent", data |-> 0]

Keys == {"", "k1", "k2"}

\* ------------------------------------------------------------------ errors
\* An error is the chain of messages wrapped around a sentinel, outermost
\* first; the sentinel is the last element.  nil is the empty chain.
NilErr == <<>>
ErrEmptyValue    == <<"ErrEmptyValue">>
ErrDataNotFound  == <<"ErrDataNotFound">>
ErrConvertFailed == <<"ErrConvertFailed">>

\* errors.Wrap / errors.Wrapf: annotate, keep the cause.
Wrap(err, msg) == <<msg>> \o err
Wrapf(err, format, key) == <<format \o key>> \o err
\* errors.Cause: the sentinel under the annotations ("nil" for a nil error).
Cause(err) == IF err = NilErr THEN "nil" ELSE err[Len(err)]

\* IsEmptyStr gone wrong: no string counts as empty.
IsEmptyStr_Never(s) == FALSE

\* stringutils.IsEmptyStr
IsEmptyStr(s) == s = ""

\* ---------------------------------------------------------------- sync.Map
Load(mm, key) == [v |-> IF mm[key] = Absent THEN NilVal ELSE mm[key],
                  ok |-> mm[key] # Absent]
Store(mm, key, value) == [mm EXCEPT ![key] = value]

\* Delete gone wrong: the whole map is cleared.
Delete_All(mm, key) == [k \in DOMAIN mm |-> Absent]

\* Delete gone wrong: nothing is deleted.
Delete_Nothing(mm, key) == mm

Delete(mm, key) == [mm EXCEPT ![key] = Absent]

\* The assertion gone wrong: an unchecked conversion that always succeeds.
TypeAssert_Unchecked(v, kind) == [value |-> v, ok |-> TRUE]

\* v.(*T): the assertion succeeds iff the dynamic type is T.
TypeAssert(v, kind) == [value |-> IF v.kind = kind THEN v ELSE NilVal,
                        ok |-> v.kind = kind]

\* ------------------------------------------------------------ stateSyncMap
\* add gone wrong: no empty-key check.
add_NoCheck(mm, key, value) ==
    [m |-> Store(mm, key, value), err |-> NilErr]

\* add gone wrong: an overwrite with a value of another dynamic type is refused.
add_KindChecked(mm, key, value) ==
    IF IsEmptyStr(key)
    THEN [m |-> mm, err |-> Wrap(ErrEmptyValue, "key")]
    ELSE IF Load(mm, key).ok /\ Load(mm, key).v.kind # value.kind
         THEN [m |-> mm, err |-> Wrapf(ErrConvertFailed, "key ", key)]
         ELSE [m |-> Store(mm, key, value), err |-> NilErr]

\* add gone wrong: insert only, an existing key is an error.
add_Exclusive(mm, key, value) ==
    IF IsEmptyStr(key)
    THEN [m |-> mm, err |-> Wrap(ErrEmptyValue, "key")]
    ELSE IF Load(mm, key).ok
         THEN [m |-> mm, err |-> Wrapf(ErrConvertFailed, "key ", key)]
         ELSE [m |-> Store(mm, key, value), err |-> NilErr]

\* add gone wrong: LoadOrStore in place of Store, an existing value is kept.
add_IfAbsent(mm, key, value) ==
    IF IsEmptyStr(key)
    THEN [m |-> mm, err |-> Wrap(ErrEmptyValue, "key")]
    ELSE [m |-> IF Load(mm, key).ok THEN mm ELSE Store(mm, key, value),
          err |-> NilErr]

\* add gone wrong: the Store comes before the empty-key check.
add_StoreFirst(mm, key, value) ==
    IF IsEmptyStr(key)
    THEN [m |-> Store(mm, key, value), err |-> Wrap(ErrEmptyValue, "key")]
    ELSE [m |-> Store(mm, key, value), err |-> NilErr]

add(mm, key, value) ==
    IF IsEmptyStr(key)
    THEN [m |-> mm, err |-> Wrap(ErrEmptyValue, "key")]
    ELSE [m |-> Store(mm, key, value), err |-> NilErr]

\* get gone wrong: the ok test inverted.
get_Inverted(mm, key) ==
    IF IsEmptyStr(key)
    THEN [v |-> NilVal, err |-> Wrap(ErrEmptyValue, "key")]
    ELSE LET l == Load(mm, key) IN
         IF ~l.ok
         THEN [v |-> l.v, err |-> NilErr]
         ELSE [v |-> NilVal, err |-> Wrapf(ErrDataNotFound, "key: ", key)]

get(mm, key) ==
    IF IsEmptyStr(key)
    THEN [v |-> NilVal, err |-> Wrap(ErrEmptyValue, "key")]
    ELSE LET l == Load(mm, key) IN
         IF l.ok
         THEN [v |-> l.v, err |-> NilErr]
         ELSE [v |-> NilVal, err |-> Wrapf(ErrDataNotFound, "key: ", key)]

\* getAsSuperState gone wrong: get's error is dropped, the assertion runs on nil.
getAsSuperState_NoErrCheck(mm, key) ==
    LET r == get(mm, key)
        a == TypeAssert(r.v, "superState") IN
    IF a.ok
    THEN [v |-> a.value, err |-> NilErr]
    ELSE [v |-> NilVal, err |-> Wrapf(ErrConvertFailed, "key ", key)]

getAsSuperState(mm, key) ==
    LET r == get(mm, key) IN
    IF r.err # NilErr
    THEN [v |-> NilVal, err |-> Wrapf(r.err, "key: ", key)]
    ELSE LET a == TypeAssert(r.v, "superState") IN
         IF a.ok
         THEN [v |-> a.value, err |-> NilErr]
         ELSE [v |-> NilVal, err |-> Wrapf(ErrConvertFailed, "key ", key)]

getAsClientState(mm, key) ==
    LET r == get(mm, key) IN
    IF r.err # NilErr
    THEN [v |-> NilVal, err |-> Wrapf(r.err, "key: ", key)]
    ELSE LET a == TypeAssert(r.v, "clientState") IN
         IF a.ok
         THEN [v |-> a.value, err |-> NilErr]
         ELSE [v |-> NilVal, err |-> Wrapf(ErrConvertFailed, "key ", key)]

\* getAsPeerState gone wrong: it asserts *pieceState, as the getter below it does.
getAsPeerState_WrongType(mm, key) ==
    LET r == get(mm, key) IN
    IF r.err # NilErr
    THEN [v |-> NilVal, err |-> Wrapf(r.err, "key: ", key)]
    ELSE LET a == TypeAssert(r.v, "pieceState") IN
         IF a.ok
         THEN [v |-> a.value, err |-> NilErr]
         ELSE [v |-> NilVal, err |-> Wrapf(ErrConvertFailed, "key ", key)]

getAsPeerState(mm, key) ==
    LET r == get(mm, key) IN
    IF r.err # NilErr
    THEN [v |-> NilVal, err |-> Wrapf(r.err, "key: ", key)]
    ELSE LET a == TypeAssert(r.v, "peerState") IN
         IF a.ok
         THEN [v |-> a.value, err |-> NilErr]
         ELSE [v |-> NilVal, err |-> Wrapf(ErrConvertFailed, "key ", key)]

getAsPieceState(mm, key) ==
    LET r == get(mm, key) IN
    IF r.err # NilErr
    THEN [v |-> NilVal, err |-> Wrapf(r.err, "key: ", key)]
    ELSE LET a == TypeAssert(r.v, "pieceState") IN
         IF a.ok
         THEN [v |-> a.value, err |-> NilErr]
         ELSE [v |-> NilVal, err |-> Wrapf(ErrConvertFailed, "key ", key)]

\* remove gone wrong: no Load before the Delete.
removeCheck_NoLoad(mm, key) ==
    IF IsEmptyStr(key)
    THEN Wrap(ErrEmptyValue, "key")
    ELSE NilErr

\* remove, up to its Load: the error it returns early with, or NilErr when it
\* goes on to Delete.
removeCheck(mm, key) ==
    IF IsEmptyStr(key)
    THEN Wrap(ErrEmptyValue, "key")
    ELSE IF ~Load(mm, key).ok
         THEN Wrapf(ErrDataNotFound, "key: ", key)
         ELSE NilErr

\* ------------------------------------------------------------------- state
\* History values of a key that holds nothing.
Never   == [kind |-> "never", data |-> 0]      \* no add has put it in yet
Removed == [kind |-> "removed", data |-> 0]    \* a remove deleted it after the latest add

\* The key every goroutine works on in the single-key specification.
SharedKey == "k1"

VARIABLES
    m,        \* the sync.Map: key -> stored value, or Absent
    pc,       \* per goroutine: "idle", or "remove_delete" between remove's Load and Delete
    rkey,     \* per goroutine: the key of the remove in progress ("" when idle)
    rhad,     \* per goroutine: history's view of that key when the remove loaded it
    last,     \* the call that returned most recently, with its arguments and results
    written,  \* history, per key: the argument of the latest successful add, Removed
              \* once a later remove has deleted the key, Never before the first add
    own,      \* history, per goroutine (single-key specification): where the goroutine's
              \* latest returned add stands among the writes to SharedKey
    ryw,      \* history (single-key specification): the latest get by a goroutine
              \* that had returned from an add before
    snap,     \* per goroutine (update specification): the snapshot its update read
    piece,    \* per goroutine (update specification): the piece its update reports, 0 if none
    reported  \* history (update specification): the pieces whose update has returned
              \* since the peer was last registered

updVars == <<snap, piece, reported>>

\* server.New (construction specification)
VARIABLES
    newpc,    \* where New stands: "idle" outside a call, else the call it makes next
    loc,      \* New's locals: cfg, and each object built so far (0: not yet)
    made,     \* history: the constructor calls of the current or latest New, in order
    ret,      \* what the latest New returned
    nextId,   \* the identity the next object built gets
    ncalls    \* calls of New so far

newVars == <<newpc, loc, made, ret, nextId, ncalls>>

mapVars == <<m, pc, rkey, rhad, last, written, own, ryw, updVars>>

vars == <<mapVars, newVars>>

\* nil *Server
NilServer == [Config |-> "", PeerMgr |-> 0, TaskMgr |-> 0, DfgetTaskMgr |-> 0,
              ProgressMgr |-> 0, OriginClient |-> 0]
NoLocals == [cfg |-> "", sm |-> 0, storeLocal |-> 0, originClient |-> 0,
             peerMgr |-> 0, dfgetTaskMgr |-> 0, progressMgr |-> 0,
             schedulerMgr |-> 0, cdnMgr |-> 0, taskMgr |-> 0]
NoReturn == [returned |-> FALSE, server |-> NilServer, err |-> NilErr]

\* What the history says the map holds under a key.
Content(w) == IF w \in Values THEN w ELSE Absent

NoCall == [op |-> "none", key |-> "", val |-> NilVal,
           v |-> NilVal, err |-> NilErr, had |-> FALSE, over |-> "none"]

\* The record of a returned call.  had: by the history, the key was present when
\* the call first touched the map.  over: the dynamic type of the value that, by the
\* history, the call's write displaced (add's Store, remove's Delete); "none" when it
\* displaced nothing, and for calls that do not write.
Returned(op, key, val, v, err, had, over) ==
    [op |-> op, key |-> key, val |-> val, v |-> v, err |-> err, had |-> had,
     over |-> over]

NoOwn == [st |-> "none", val |-> NilVal]
NoRead == [st |-> "none", val |-> NilVal, latest |-> Never, v |-> NilVal, err |-> NilErr]

Init ==
    /\ m = [k \in Keys |-> Absent]
    /\ pc = [t \in Threads |-> "idle"]
    /\ rkey = [t \in Threads |-> ""]
    /\ rhad = [t \in Threads |-> FALSE]
    /\ last = NoCall
    /\ written = [k \in Keys |-> Never]
    /\ own = [t \in Threads |-> NoOwn]
    /\ ryw = NoRead
    /\ snap = [t \in Threads |-> NilVal]
    /\ piece = [t \in Threads |-> 0]
    /\ reported = {}
    /\ newpc = "idle"
    /\ loc = NoLocals
    /\ made = <<>>
    /\ ret = NoReturn
    /\ nextId = 1
    /\ ncalls = 0

\* ------------------------------------------------- the calls, step by step
\* add: the empty check and the Store, one access to the map.
AddCall(t, key, value) ==
    /\ pc[t] = "idle"
    /\ LET r == add(m, key, value) IN
       /\ m' = r.m
       /\ last' = Returned("add", key, value, NilVal, r.err, written[key] \in Values,
                          IF written[key] \in Values THEN written[key].kind ELSE "none")
       /\ written' = IF r.err = NilErr THEN [written EXCEPT ![key] = value]
                     ELSE written
    /\ UNCHANGED <<pc, rkey, rhad>>

\* A getter: r is what the getter computes on the current map.
GetterCall(t, op, key, r) ==
    /\ pc[t] = "idle"
    /\ last' = Returned(op, key, NilVal, r.v, r.err, written[key] \in Values, "none")
    /\ UNCHANGED <<m, pc, rkey, rhad, written>>

\* remove, first step: the empty check and the Load.
RemoveLoadCall(t, key) ==
    /\ pc[t] = "idle"
    /\ LET err == removeCheck(m, key) IN
       IF err # NilErr
       THEN /\ last' = Returned("remove", key, NilVal, NilVal, err,
                                  written[key] \in Values, "none")
            /\ UNCHANGED <<pc, rkey, rhad>>
       ELSE /\ pc' = [pc EXCEPT ![t] = "remove_delete"]
            /\ rkey' = [rkey EXCEPT ![t] = key]
            /\ rhad' = [rhad EXCEPT ![t] = written[key] \in Values]
            /\ UNCHANGED last
    /\ UNCHANGED <<m, written>>

\* remove, second step: the Delete and the nil return.
RemoveDeleteCall(t) ==
    /\ pc[t] = "remove_delete"
    /\ m' = Delete(m, rkey[t])
    /\ last' = Returned("remove", rkey[t], NilVal, NilVal, NilErr, rhad[t],
                        IF written[rkey[t]] \in Values THEN written[rkey[t]].kind ELSE "none")
    /\ written' = [written EXCEPT ![rkey[t]] = Removed]
    /\ pc' = [pc EXCEPT ![t] = "idle"]
    /\ rkey' = [rkey EXCEPT ![t] = ""]
    /\ rhad' = [rhad EXCEPT ![t] = FALSE]

\* ------------------------------------------- goroutines calling on any key
Add(t, key, value) == AddCall(t, key, value) /\ UNCHANGED <<own, ryw, updVars, newVars>>

Get(t, key) ==
    GetterCall(t, "get", key, get(m, key)) /\ UNCHANGED <<own, ryw, updVars, newVars>>
GetAsSuperState(t, key) ==
    GetterCall(t, "getAsSuperState", key, getAsSuperState(m, key)) /\ UNCHANGED <<own, ryw, updVars, newVars>>
GetAsClientState(t, key) ==
    GetterCall(t, "getAsClientState", key, getAsClientState(m, key)) /\ UNCHANGED <<own, ryw, updVars, newVars>>
GetAsPeerState(t, key) ==
    GetterCall(t, "getAsPeerState", key, getAsPeerState(m, key)) /\ UNCHANGED <<own, ryw, updVars, newVars>>
GetAsPieceState(t, key) ==
    GetterCall(t, "getAsPieceState", key, getAsPieceState(m, key)) /\ UNCHANGED <<own, ryw, updVars, newVars>>

RemoveLoad(t, key) == RemoveLoadCall(t, key) /\ UNCHANGED <<own, ryw, updVars, newVars>>
RemoveDelete(t) == RemoveDeleteCall(t) /\ UNCHANGED <<own, ryw, updVars, newVars>>

Next ==
    \E t \in Threads :
        \/ \E key \in Keys, value \in Values : Add(t, key, value)
        \/ \E key \in Keys : Get(t, key)
        \/ \E key \in Keys : GetAsSuperState(t, key)
        \/ \E key \in Keys : GetAsClientState(t, key)
        \/ \E key \in Keys : GetAsPeerState(t, key)
        \/ \E key \in Keys : GetAsPieceState(t, key)
        \/ \E key \in Keys : RemoveLoad(t, key)
        \/ RemoveDelete(t)

Spec == Init /\ [][Next]_vars

\* ------------------------- goroutines all calling on SharedKey, with history
\* own[t].st: "none" before t's first returned add; "latest" while no Store or
\* Delete has followed t's latest add (val is what it stored); "overwritten" once
\* a later add took effect; "removed" once a later remove's Delete took effect.
SharedAdd(t, value) ==
    /\ AddCall(t, SharedKey, value)
    /\ own' = [u \in Threads |->
                 IF u = t THEN [st |-> "latest", val |-> value]
                 ELSE IF own[u].st = "none" THEN own[u]
                 ELSE [st |-> "overwritten", val |-> NilVal]]
    /\ UNCHANGED <<ryw, updVars, newVars>>

SharedGet(t) ==
    /\ GetterCall(t, "get", SharedKey, get(m, SharedKey))
    /\ ryw' = IF own[t].st = "none" THEN ryw
              ELSE LET r == get(m, SharedKey) IN
                   [st |-> own[t].st, val |-> own[t].val,
                    latest |-> written[SharedKey], v |-> r.v, err |-> r.err]
    /\ UNCHANGED <<own, updVars, newVars>>

SharedRemoveLoad(t) ==
    /\ RemoveLoadCall(t, SharedKey)
    /\ UNCHANGED <<own, ryw, updVars, newVars>>

SharedRemoveDelete(t) ==
    /\ RemoveDeleteCall(t)
    /\ own' = [u \in Threads |->
                 IF own[u].st = "none" THEN own[u]
                 ELSE [st |-> "removed", val |-> NilVal]]
    /\ UNCHANGED <<ryw, updVars, newVars>>

NextShared ==
    \E t \in Threads :
        \/ \E value \in Values : SharedAdd(t, value)
        \/ SharedGet(t)
        \/ SharedRemoveLoad(t)
        \/ SharedRemoveDelete(t)

SpecShared == Init /\ [][NextShared]_vars

\* ------------- goroutines updating one peer's piece bitmap by read, merge, add
\* The pieces of the task.
Pieces == 1..NumThreads

\* A peerState snapshot: data is the bitmap of the pieces the peer holds (piece p
\* is bit p-1).
Bitmaps == [kind : {"peerState"}, data : 0..(2^NumThreads - 1)]
EmptyBitmap == [kind |-> "peerState", data |-> 0]

HasPiece(v, p) == (v.data \div 2^(p-1)) % 2 = 1

\* The caller's merge: a new snapshot, the one read plus piece p.
Merge(v, p) == IF HasPiece(v, p) THEN v ELSE [v EXCEPT !.data = @ + 2^(p-1)]

\* The add of a call on SharedKey in this specification, with its record.
UpdateAdd(value) ==
    LET r == add(m, SharedKey, value) IN
    /\ m' = r.m
    /\ last' = Returned("add", SharedKey, value, NilVal, r.err,
                        written[SharedKey] \in Bitmaps,
                        IF written[SharedKey] \in Bitmaps
                        THEN written[SharedKey].kind ELSE "none")
    /\ written' = IF r.err = NilErr THEN [written EXCEPT ![SharedKey] = value]
                  ELSE written

\* The peer is registered, or registered again: its empty snapshot is added.
\* The updates returned before it no longer count as reported.
Register(t) ==
    /\ pc[t] = "idle"
    /\ UpdateAdd(EmptyBitmap)
    /\ reported' = {}
    /\ UNCHANGED <<pc, rkey, rhad, own, ryw, snap, piece, newVars>>

\* An update reporting piece p, first call: getAsPeerState; on an error the
\* update is given up.
UpdateRead(t, p) ==
    /\ pc[t] = "idle"
    /\ LET r == getAsPeerState(m, SharedKey) IN
       /\ last' = Returned("getAsPeerState", SharedKey, NilVal, r.v, r.err,
                           written[SharedKey] \in Bitmaps, "none")
       /\ IF r.err = NilErr
          THEN /\ snap' = [snap EXCEPT ![t] = r.v]
               /\ piece' = [piece EXCEPT ![t] = p]
               /\ pc' = [pc EXCEPT ![t] = "update_write"]
          ELSE UNCHANGED <<snap, piece, pc>>
    /\ UNCHANGED <<m, rkey, rhad, written, own, ryw, reported, newVars>>

\* The update's second call: add of the snapshot read merged with the piece.
UpdateWrite(t) ==
    /\ pc[t] = "update_write"
    /\ UpdateAdd(Merge(snap[t], piece[t]))
    /\ reported' = IF add(m, SharedKey, Merge(snap[t], piece[t])).err = NilErr
                   THEN reported \cup {piece[t]} ELSE reported
    /\ pc' = [pc EXCEPT ![t] = "idle"]
    /\ snap' = [snap EXCEPT ![t] = NilVal]
    /\ piece' = [piece EXCEPT ![t] = 0]
    /\ UNCHANGED <<rkey, rhad, own, ryw, newVars>>

NextUpdate ==
    \E t \in Threads :
        \/ Register(t)
        \/ \E p \in Pieces : UpdateRead(t, p)
        \/ UpdateWrite(t)

SpecUpdate == Init /\ [][NextUpdate]_vars

\* ================================================================ server.New
\* The configurations New is called with.
Configs == {"cfgA", "cfgB"}
\* What a collaborator's constructor hands back as err: nil, or some error.
CtorErrs == {<<"invalid config">>, <<"not available">>}
CtorOutcomes == {NilErr} \cup CtorErrs

\* The calls New makes, in the order of its statements.
NewOrder == << "store.NewManager", "sm.Get", "httpclient.NewOriginClient",
               "peer.NewManager", "dfgettask.NewManager", "progress.NewManager",
               "scheduler.NewManager", "cdn.NewManager", "task.NewManager" >>

\* The arguments of a call: the objects handed over (0: not an argument).
NoArgs == [cfg |-> "", sm |-> 0, storeLocal |-> 0, peerMgr |-> 0, dfgetTaskMgr |-> 0,
           progressMgr |-> 0, cdnMgr |-> 0, schedulerMgr |-> 0, originClient |-> 0,
           register |-> FALSE]
StoreArgs(l)     == [NoArgs EXCEPT !.cfg = l.cfg]
GetArgs(l)       == [NoArgs EXCEPT !.sm = l.sm]
PeerArgs(l)      == [NoArgs EXCEPT !.register = TRUE]
DfgetTaskArgs(l) == [NoArgs EXCEPT !.cfg = l.cfg, !.register = TRUE]
ProgressArgs(l)  == [NoArgs EXCEPT !.cfg = l.cfg]
SchedulerArgs(l) == [NoArgs EXCEPT !.cfg = l.cfg, !.progressMgr = l.progressMgr]
CdnArgs(l)       == [NoArgs EXCEPT !.cfg = l.cfg, !.storeLocal = l.storeLocal,
                                   !.progressMgr = l.progressMgr,
                                   !.originClient = l.originClient]
TaskArgs(l)      == [NoArgs EXCEPT !.cfg = l.cfg, !.peerMgr = l.peerMgr,
                                   !.dfgetTaskMgr = l.dfgetTaskMgr,
                                   !.progressMgr = l.progressMgr,
                                   !.cdnMgr = l.cdnMgr,
                                   !.schedulerMgr = l.schedulerMgr,
                                   !.originClient = l.originClient,
                                   !.register = TRUE]

\* &Server{...}
ServerOf(l) == [Config |-> l.cfg, PeerMgr |-> l.peerMgr, TaskMgr |-> l.taskMgr,
                DfgetTaskMgr |-> l.dfgetTaskMgr, ProgressMgr |-> l.progressMgr,
                OriginClient |-> l.originClient]

\* The error check gone wrong: the error is dropped and New goes on.
AfterCall_Ignore(err, next) == next

\* if err != nil { return nil, err }: where New stands after a call.
AfterCall(err, next) == IF err # NilErr THEN "idle" ELSE next

\* x, err := ctor(args); if err != nil { return nil, err }
Call(ctor, field, args, next) ==
    /\ newpc = ctor
    /\ \E err \in CtorOutcomes :
         LET id == IF err = NilErr THEN nextId ELSE 0
             go == AfterCall(err, next)
         IN /\ made' = Append(made, [ctor |-> ctor, id |-> id, err |-> err, args |-> args])
            /\ loc' = [loc EXCEPT ![field] = id]
            /\ nextId' = IF err = NilErr THEN nextId + 1 ELSE nextId
            /\ newpc' = go
            /\ ret' = IF go = "idle"
                        THEN [returned |-> TRUE, server |-> NilServer, err |-> err]
                        ELSE ret
    /\ UNCHANGED <<ncalls, mapVars>>

\* New is entered (version.NewBuildInfo registers the build information).
NewCall(cfg) ==
    /\ newpc = "idle"
    /\ ncalls < MaxNew
    /\ ncalls' = ncalls + 1
    /\ loc' = [NoLocals EXCEPT !.cfg = cfg]
    /\ made' = <<>>
    /\ ret' = NoReturn
    /\ newpc' = "store.NewManager"
    /\ UNCHANGED <<nextId, mapVars>>

StoreNewManager == Call("store.NewManager", "sm", StoreArgs(loc), "sm.Get")
SmGet == Call("sm.Get", "storeLocal", GetArgs(loc), "httpclient.NewOriginClient")

\* originClient := httpclient.NewOriginClient(): no error to check.
NewOriginClient ==
    /\ newpc = "httpclient.NewOriginClient"
    /\ made' = Append(made, [ctor |-> "httpclient.NewOriginClient", id |-> nextId,
                             err |-> NilErr, args |-> NoArgs])
    /\ loc' = [loc EXCEPT !.originClient = nextId]
    /\ nextId' = nextId + 1
    /\ newpc' = "peer.NewManager"
    /\ UNCHANGED <<ret, ncalls, mapVars>>

PeerNewManager == Call("peer.NewManager", "peerMgr", PeerArgs(loc), "dfgettask.NewManager")
DfgettaskNewManager ==
    Call("dfgettask.NewManager", "dfgetTaskMgr", DfgetTaskArgs(loc), "progress.NewManager")
ProgressNewManager ==
    Call("progress.NewManager", "progressMgr", ProgressArgs(loc), "scheduler.NewManager")
SchedulerNewManager ==
    Call("scheduler.NewManager", "schedulerMgr", SchedulerArgs(loc), "cdn.NewManager")
CdnNewManager == Call("cdn.NewManager", "cdnMgr", CdnArgs(loc), "task.NewManager")
TaskNewManager == Call("task.NewManager", "taskMgr", TaskArgs(loc), "return")

\* return &Server{...}, nil
NewReturn ==
    /\ newpc = "return"
    /\ ret' = [returned |-> TRUE, server |-> ServerOf(loc), err |-> NilErr]
    /\ newpc' = "idle"
    /\ UNCHANGED <<loc, made, nextId, ncalls, mapVars>>

NextNew ==
    \/ \E cfg \in Configs : NewCall(cfg)
    \/ StoreNewManager
    \/ SmGet
    \/ NewOriginClient
    \/ PeerNewManager
    \/ DfgettaskNewManager
    \/ ProgressNewManager
    \/ SchedulerNewManager
    \/ CdnNewManager
    \/ TaskNewManager
    \/ NewReturn

SpecNew == Init /\ [][NextNew]_vars

\* ================================================================== claims
TypedOps == {"getAsSuperState", "getAsClientState", "getAsPeerState", "getAsPieceState"}
\* The dynamic type each typed getter asserts.
KindOf(op) == CASE op = "getAsSuperState"  -> "superState"
                [] op = "getAsClientState" -> "clientState"
                [] op = "getAsPeerState"   -> "peerState"
                [] op = "getAsPieceState"  -> "pieceState"
                [] OTHER                   -> "none"

\* C1: when the latest successful add on a non-empty key k stored v, a state type,
\* and no add or remove on k has taken effect since, get(k) returns exactly v with
\* no error, and so does the typed getter of v's type.
C1_AddThenGet ==
    (/\ ~IsEmptyStr(last.key)
     /\ written[last.key] \in Values
     /\ written[last.key].kind \in StateKinds)
    => /\ last.op = "get" => (last.v = written[last.key] /\ last.err = NilErr)
       /\ (last.op \in TypedOps /\ KindOf(last.op) = written[last.key].kind)
            => (last.v = written[last.key] /\ last.err = NilErr)

\* C1's case: a typed getter has returned the peerState the latest add stored.
C1_Witness ==
    /\ last.op = "getAsPeerState"
    /\ written[last.key] \in Values
    /\ last.v = written[last.key]
    /\ last.err = NilErr

\* C2: get, remove and the four typed getters called with the empty key fail with
\* ErrEmptyValue, never with ErrDataNotFound, whatever the map holds.
C2_EmptyKey ==
    (last.key = "" /\ last.op \in {"get", "remove"} \cup TypedOps)
    => /\ Cause(last.err) = "ErrEmptyValue"
       /\ Cause(last.err) # "ErrDataNotFound"
       /\ last.v = NilVal

\* C2's case: a typed getter was called with the empty key on a non-empty map.
C2_Witness ==
    /\ last.op = "getAsPieceState"
    /\ last.key = ""
    /\ Cause(last.err) = "ErrEmptyValue"
    /\ \E k \in Keys : m[k] # Absent

\* C3: get and remove on a non-empty key that is not in the map (never added, or
\* added and removed since) fail with ErrDataNotFound and return no value.
C3_NotFound ==
    (/\ last.op \in {"get", "remove"}
     /\ ~IsEmptyStr(last.key)
     /\ ~last.had)
    => /\ Cause(last.err) = "ErrDataNotFound"
       /\ last.v = NilVal

\* C3's case: a remove failed on a key that had been added and removed before.
C3_Witness ==
    /\ last.op = "remove"
    /\ ~last.had
    /\ written[last.key] = Removed
    /\ Cause(last.err) = "ErrDataNotFound"

\* C4: a typed getter for type X on a key holding a value of another state type Y
\* fails with ErrConvertFailed and returns no value.
C4_TypeMismatch ==
    (/\ last.op \in TypedOps
     /\ written[last.key] \in Values
     /\ written[last.key].kind \in StateKinds
     /\ written[last.key].kind # KindOf(last.op))
    => /\ Cause(last.err) = "ErrConvertFailed"
       /\ last.v = NilVal

\* C4's case: getAsPeerState on a key holding a pieceState has failed.
C4_Witness ==
    /\ last.op = "getAsPeerState"
    /\ written[last.key] \in Values
    /\ written[last.key].kind = "pieceState"
    /\ Cause(last.err) = "ErrConvertFailed"

\* C5 as claimed: an add that returns nil on a key that is present never changes
\* the dynamic type stored under the key.
C5_KindRetained ==
    (last.op = "add" /\ last.err = NilErr /\ last.over # "none")
    => last.val.kind = last.over

\* C5 as amended: add on a non-empty key returns nil whatever it overwrites, and
\* the dynamic type under a key is always that of the latest successful add on it;
\* nothing but an add or a remove of that key changes it.
C5_KindFollowsLatestAdd ==
    /\ (last.op = "add" /\ ~IsEmptyStr(last.key)) => last.err = NilErr
    /\ \A k \in Keys :
         m[k] # Absent => (written[k] \in Values /\ m[k].kind = written[k].kind)

\* C5's case: an add has overwritten a value of another dynamic type.
C5_Witness ==
    /\ last.op = "add"
    /\ last.err = NilErr
    /\ last.over \notin {"none", last.val.kind}
    /\ m[last.key].kind = last.val.kind

\* C6: a remove that returns nil has deleted an entry that was there: of two
\* removes racing on a present key, with no add in between, only one returns nil.
C6_RemoveAtomic ==
    (last.op = "remove" /\ last.err = NilErr) => last.over # "none"

\* C7: the map never holds the empty key: add("", v) fails with ErrEmptyValue and
\* leaves the map as the history of successful adds and removes has it.
C7_NoEmptyKey ==
    /\ m[""] = Absent
    /\ (last.op = "add" /\ last.key = "")
         => /\ Cause(last.err) = "ErrEmptyValue"
            /\ \A k \in Keys : m[k] = Content(written[k])

\* C7's case: add with the empty key has failed on a map that holds a key.
C7_Witness ==
    /\ last.op = "add"
    /\ last.key = ""
    /\ Cause(last.err) = "ErrEmptyValue"
    /\ \E k \in Keys : m[k] # Absent

\* C8: add on a non-empty key returns nil whether or not the key is present, and
\* while no remove has followed the latest add the key holds exactly the value of
\* the add that took effect last, the latest add of exactly one goroutine.
C8_LastWriterWins ==
    /\ last.op = "add"
         => /\ last.err = NilErr
            /\ get(m, last.key) = [v |-> last.val, err |-> NilErr]
    /\ written[SharedKey] \in Values
         => /\ get(m, SharedKey) = [v |-> written[SharedKey], err |-> NilErr]
            /\ \E t \in Threads :
                 /\ own[t] = [st |-> "latest", val |-> m[SharedKey]]
                 /\ \A u \in Threads \ {t} : own[u].st \in {"none", "overwritten"}

\* C8's case: two goroutines have added to the key, one add overwrote the other.
C8_Witness ==
    /\ last.op = "add"
    /\ last.over # "none"
    /\ \E t, u \in Threads :
         /\ own[t].st = "latest"
         /\ own[u].st = "overwritten"
         /\ m[SharedKey] = own[t].val

\* C9: a get by a goroutine that has returned from add(k, v) returns v while that
\* add is the latest write, the value of the latest add once a later add took
\* effect, and ErrDataNotFound only once a remove took effect after it.
C9_ReadYourWrites ==
    /\ ryw.st = "latest" => (ryw.err = NilErr /\ ryw.v = ryw.val)
    /\ ryw.st = "overwritten"
         => (ryw.err = NilErr /\ ryw.latest \in Values /\ ryw.v = ryw.latest)
    /\ ryw.st = "removed"
         => (Cause(ryw.err) = "ErrDataNotFound" /\ ryw.latest = Removed /\ ryw.v = NilVal)

\* C9's case: a goroutine read the key after its own add and after another
\* goroutine's later add.
C9_Witness ==
    /\ ryw.st = "overwritten"
    /\ ryw.err = NilErr
    /\ ryw.v = ryw.latest

\* C10: calls on one key leave every other key alone: each non-empty key is
\* retrievable with exactly the value of the latest add on it, and is not found
\* when no add has put it in or a remove has taken it out.
C10_DistinctKeys ==
    \A k \in Keys \ {""} :
        get(m, k) = IF written[k] \in Values
                    THEN [v |-> written[k], err |-> NilErr]
                    ELSE [v |-> NilVal, err |-> Wrapf(ErrDataNotFound, "key: ", k)]

\* C10's case: every non-empty key has been added, with different values.
C10_Witness ==
    /\ last.op = "add"
    /\ \A k \in Keys \ {""} : m[k] \in Values
    /\ \A j, k \in Keys \ {""} : j # k => m[j] # m[k]

\* The typed getter named op, on a map.
TypedGet(op, mm, key) ==
    CASE op = "getAsSuperState"  -> getAsSuperState(mm, key)
      [] op = "getAsClientState" -> getAsClientState(mm, key)
      [] op = "getAsPeerState"   -> getAsPeerState(mm, key)
      [] op = "getAsPieceState"  -> getAsPieceState(mm, key)

\* C12: a step in which a call returns an error leaves the map as it was, and so
\* does every step of get and of the four typed getters, whatever they return.
C12_ErrorsLeaveStore ==
    [][(last'.err # NilErr \/ last'.op \in {"get"} \cup TypedOps) => m' = m]_vars

\* C12's case: a typed getter has failed with ErrConvertFailed on a key that
\* still holds the value the latest add stored.
C12_Witness ==
    /\ last.op \in TypedOps
    /\ Cause(last.err) = "ErrConvertFailed"
    /\ m[last.key] \in Values
    /\ m[last.key] = written[last.key]

\* C13: remove on a non-empty key that is present returns nil and deletes the key;
\* from then until the next add on the key, get, the typed getters and a further
\* remove fail with ErrDataNotFound.
C13_RemoveDeletes ==
    /\ (last.op = "remove" /\ ~IsEmptyStr(last.key) /\ last.had)
         => /\ last.err = NilErr
            /\ m[last.key] = Absent
            /\ Cause(get(m, last.key).err) = "ErrDataNotFound"
    /\ (/\ last.op \in {"get", "remove"} \cup TypedOps
        /\ written[last.key] = Removed
        /\ ~(last.op = "remove" /\ last.had))
         => /\ Cause(last.err) = "ErrDataNotFound"
            /\ last.v = NilVal

\* C13's case: a typed getter was called on a key that a remove had deleted.
C13_Witness ==
    /\ last.op = "getAsSuperState"
    /\ written[last.key] = Removed
    /\ Cause(last.err) = "ErrDataNotFound"

\* C14: a typed getter fails with ErrEmptyValue on the empty key, else with
\* ErrDataNotFound on an absent key, else with ErrConvertFailed on a value of
\* another dynamic type, and else returns the value get returns with no error.
C14_TypedGetPrecedence ==
    last.op \in TypedOps
    => IF last.key = ""
       THEN Cause(last.err) = "ErrEmptyValue" /\ last.v = NilVal
       ELSE IF written[last.key] \notin Values
       THEN Cause(last.err) = "ErrDataNotFound" /\ last.v = NilVal
       ELSE IF written[last.key].kind # KindOf(last.op)
       THEN Cause(last.err) = "ErrConvertFailed" /\ last.v = NilVal
       ELSE /\ last.err = NilErr
            /\ get(m, last.key).err = NilErr
            /\ last.v = get(m, last.key).v

\* C14's case: a typed getter has failed with ErrDataNotFound on an absent key.
C14_Witness ==
    /\ last.op = "getAsSuperState"
    /\ ~IsEmptyStr(last.key)
    /\ ~last.had
    /\ Cause(last.err) = "ErrDataNotFound"

\* The typed getters that return no error for a key.
Succeeding(mm, key) == {op \in TypedOps : TypedGet(op, mm, key).err = NilErr}

\* C15: for every key at most one typed getter succeeds: exactly one, the getter
\* of its type, when the key holds a value of a state type, and none when it holds
\* a value of another type, which add stores without error and get returns while
\* all four typed getters fail with ErrConvertFailed.
C15_OneTypedGetter ==
    /\ \A k \in Keys :
         /\ Cardinality(Succeeding(m, k)) <= 1
         /\ m[k].kind \in StateKinds
              => Succeeding(m, k) = {op \in TypedOps : KindOf(op) = m[k].kind}
         /\ m[k].kind = "other"
              => /\ get(m, k) = [v |-> m[k], err |-> NilErr]
                 /\ \A op \in TypedOps :
                      Cause(TypedGet(op, m, k).err) = "ErrConvertFailed"
    /\ (last.op = "add" /\ ~IsEmptyStr(last.key) /\ last.val.kind = "other")
         => (last.err = NilErr /\ m[last.key] = last.val)
    /\ (last.op \in TypedOps /\ last.had /\ written[last.key].kind = "other")
         => Cause(last.err) = "ErrConvertFailed"

\* C15's case: a typed getter has failed on a key holding a value that is of none
\* of the four state types.
C15_Witness ==
    /\ last.op = "getAsClientState"
    /\ m[last.key].kind = "other"
    /\ Cause(last.err) = "ErrConvertFailed"
    /\ Succeeding(m, last.key) = {}

\* C11: when goroutines update one key by get, merge and add, the key always
\* holds exactly the snapshot passed to the add that took effect last, whole: the
\* snapshot its goroutine read plus its piece, never a mixture of two, and each
\* add returns nil.  (That an update can be lost is C11_LostUpdate, reachable.)
C11_OneSnapshotWins ==
    /\ m[SharedKey] = IF written[SharedKey] \in Bitmaps
                      THEN written[SharedKey] ELSE Absent
    /\ last.op = "add" => (last.err = NilErr /\ m[SharedKey] = last.val)
    /\ \A t \in Threads :
         pc[t] = "update_write" => (snap[t] \in Bitmaps /\ piece[t] \in Pieces)

\* C11's case, the lost update: every update has returned, no registration has
\* followed, and the key lacks a piece whose update returned.
C11_LostUpdate ==
    /\ \A t \in Threads : pc[t] = "idle"
    /\ \E p \in reported : ~HasPiece(m[SharedKey], p)

\* The place of a call in New's order.
IndexOf(ctor) == CHOOSE i \in 1..Len(NewOrder) : NewOrder[i] = ctor

\* C16: New makes its calls in the fixed order; a call that returns an error is
\* the last one made, and New has then returned that error with no Server; a
\* Server is returned only after every call succeeded, and then exactly one
\* progress manager was built, and that instance is the one handed to the
\* scheduler, the CDN manager and the task manager and set as Server.ProgressMgr.
C16_NewFailFast ==
    LET n      == Len(made)
        failed == {i \in 1..n : made[i].err # NilErr}
        prog   == {i \in 1..n : made[i].ctor = "progress.NewManager"}
    IN  /\ n <= Len(NewOrder)
        /\ \A i \in 1..n : made[i].ctor = NewOrder[i]
        /\ \A i \in 1..n : \A j \in 1..n :
               (i # j /\ made[i].err = NilErr /\ made[j].err = NilErr)
                   => made[i].id # made[j].id
        /\ \A i \in failed :
               /\ i = n
               /\ newpc = "idle"
               /\ ret = [returned |-> TRUE, server |-> NilServer, err |-> made[i].err]
        /\ ret.returned =>
               \/ ret.err # NilErr /\ ret.server = NilServer /\ failed = {n}
               \/ /\ ret.err = NilErr
                  /\ ret.server # NilServer
                  /\ failed = {}
                  /\ n = Len(NewOrder)
                  /\ Cardinality(prog) = 1
                  /\ LET p == made[IndexOf("progress.NewManager")].id
                     IN  /\ p # 0
                         /\ made[IndexOf("scheduler.NewManager")].args.progressMgr = p
                         /\ made[IndexOf("cdn.NewManager")].args.progressMgr = p
                         /\ made[IndexOf("task.NewManager")].args.progressMgr = p
                         /\ ret.server.ProgressMgr = p

\* C16 happens: a second New returned a Server whose progress manager is the one
\* that call built, after the first New had failed part-way.
C16_Witness ==
    /\ ncalls = MaxNew
    /\ ret.returned
    /\ ret.server # NilServer
    /\ Len(made) = Len(NewOrder)
    /\ ret.server.ProgressMgr = made[IndexOf("progress.NewManager")].id
    /\ made[1].id > 1
    /\ made[1].id <= Len(NewOrder)
====
